---- MODULE Spec2Model ----
(***************************************************************************)
(* Reference-post retrieval and ranking (src/reference_posts.py):          *)
(* FewShotPosts loads a JSON corpus into a table, derives a length         *)
(* category and a tag index, and serves filtered / top-N selections.       *)
(*                                                                         *)
(* JSON and table-cell values are tagged records [t, s, twice, l]:         *)
(*   t = "absent"  key not present in the object                           *)
(*   t = "null"    JSON null                                               *)
(*   t = "na"      pandas missing value (NaN / None / pd.NA)               *)
(*   t = "str"     string s                                                *)
(*   t = "num"     finite number twice/2 (halves model fractional values)  *)
(*   t = "inf"     float infinity (JSON Infinity, 1e999)                   *)
(*   t = "list"    list l of values                                        *)
(***************************************************************************)
EXTENDS Integers, Sequences, FiniteSets, TLC

VARIABLES file, pc, df, unique_tags, call, arg, ret

vars == <<file, pc, df, unique_tags, call, arg, ret>>

--------------------------------------------------------------------------
(* Bounds *)

MaxPosts == 2
MaxN == 3
MaxCount == 30
MaxPromptPosts == 3
MaxRawPosts == 2

--------------------------------------------------------------------------
(* Values *)

Val(t, s, twice, l) == [t |-> t, s |-> s, twice |-> twice, l |-> l]

Absent == Val("absent", "", 0, <<>>)
Null == Val("null", "", 0, <<>>)
NA == Val("na", "", 0, <<>>)
Inf == Val("inf", "", 0, <<>>)
Bool(b) == Val("bool", "", IF b THEN 2 ELSE 0, <<>>)
Str(x) == Val("str", x, 0, <<>>)
IntV(n) == Val("num", "", 2 * n, <<>>)
Half(h) == Val("num", "", h, <<>>)
List(l) == Val("list", "", 0, l)

IsNa(v) == v.t = "na"
IsInteger(v) == v.t = "num" /\ v.twice % 2 = 0
IntOf(v) == v.twice \div 2

Min(a, b) == IF a <= b THEN a ELSE b

--------------------------------------------------------------------------
(* Python / pandas primitives *)

\* Truncation toward zero of the number twice/2 (int(x), astype(int)).
Trunc(v) ==
  IF v.twice >= 0 THEN v.twice \div 2 ELSE -((-v.twice) \div 2)

\* str.lower() on the strings of the model.
LowerTable ==
  [s \in {"English", "english", "ENGLISH", "French"} |->
     IF s = "French" THEN "french" ELSE "english"]

Lower(s) == IF s \in DOMAIN LowerTable THEN LowerTable[s] ELSE s

\* Code-point order of the tag strings of the model ("7" < "AI" < "ML" < "ai").
StrRank ==
  [s \in {"7", "AI", "ML", "ai"} |->
     IF s = "7" THEN 0 ELSE IF s = "AI" THEN 1 ELSE IF s = "ML" THEN 2 ELSE 3]

StrLess(a, b) == StrRank[a] < StrRank[b]

\* Strings pandas.to_numeric parses as numbers.
NumericStrings == [s \in {"7"} |-> 7]

\* pd.to_numeric(errors='coerce') on one cell.
ToNumeric(v) ==
  CASE v.t = "num" -> v
    [] v.t = "inf" -> v
    [] v.t = "str" /\ v.s \in DOMAIN NumericStrings -> IntV(NumericStrings[v.s])
    [] OTHER -> NA

\* .fillna(x) on one cell.
FillNa(v, x) == IF IsNa(v) THEN x ELSE v

RECURSIVE SortedSeqDescending(_)
\* Variant: the strings of S in decreasing order.
SortedSeqDescending(S) ==
  IF S = {} THEN <<>>
  ELSE LET m == CHOOSE x \in S : \A y \in S \ {x} : StrLess(y, x)
       IN <<m>> \o SortedSeqDescending(S \ {m})

\* sorted(list(set(tags))): the strings of S in increasing code-point order.
RECURSIVE SortedSeq(_)
SortedSeq(S) ==
  IF S = {} THEN <<>>
  ELSE LET m == CHOOSE x \in S : \A y \in S \ {x} : StrLess(x, y)
       IN <<m>> \o SortedSeq(S \ {m})

--------------------------------------------------------------------------
(* The table *)

Columns == {"text", "line_count", "tags", "language", "length", "engagement"}
SourceKeys == {"text", "line_count", "tags", "language", "engagement"}

NoneFrame == [isNone |-> TRUE, columns |-> {}, rows |-> <<>>]

\* pd.DataFrame(columns=[...]): the schema with no rows.
EmptyFrame == [isNone |-> FALSE, columns |-> Columns, rows |-> <<>>]

\* DataFrame.empty
IsEmpty(d) == d.columns = {} \/ Len(d.rows) = 0

\* One cell of the normalised frame: a key that is absent or null is missing.
Cell(v) == IF v.t \in {"absent", "null"} THEN NA ELSE v

\* pd.json_normalize(posts) for a list of flat objects: one row per object,
\* one column per key present in at least one object.
JsonNormalize(posts) ==
  [isNone |-> FALSE,
   columns |-> {k \in SourceKeys : \E i \in 1..Len(posts) : posts[i][k].t # "absent"},
   rows |-> [i \in 1..Len(posts) |->
               [text |-> Cell(posts[i].text),
                line_count |-> Cell(posts[i].line_count),
                tags |-> Cell(posts[i].tags),
                language |-> Cell(posts[i].language),
                length |-> "",
                engagement |-> Cell(posts[i].engagement)]]]

--------------------------------------------------------------------------
(* categorize_length *)

Returned(v) == [exc |-> "none", val |-> v]
Raised(e) == [exc |-> e, val |-> <<>>]

\* Variant: the boundary 5 counted as Short.
categorize_length_boundary(line_count) ==
  IF line_count.t \in {"na", "null"} THEN Returned("Unknown")
  ELSE CASE line_count.t = "inf" -> Raised("OverflowError")
         [] line_count.t = "str" /\ line_count.s \notin DOMAIN NumericStrings ->
              Returned("Unknown")
         [] OTHER ->
              LET count == IF line_count.t = "str"
                           THEN NumericStrings[line_count.s]
                           ELSE Trunc(line_count)
              IN IF count <= 5 THEN Returned("Short")
                 ELSE IF count <= 10 THEN Returned("Medium")
                 ELSE Returned("Long")

categorize_length(line_count) ==
  IF line_count.t \in {"na", "null"} THEN Returned("Unknown")
  ELSE CASE line_count.t = "inf" -> Raised("OverflowError")
         [] line_count.t = "str" /\ line_count.s \notin DOMAIN NumericStrings ->
              Returned("Unknown")
         [] OTHER ->
              LET count == IF line_count.t = "str"
                           THEN NumericStrings[line_count.s]
                           ELSE Trunc(line_count)
              IN IF count < 5 THEN Returned("Short")
                 ELSE IF 5 <= count /\ count <= 10 THEN Returned("Medium")
                 ELSE Returned("Long")

--------------------------------------------------------------------------
(* load_posts *)

\* self.df[col] = ...: the columns cols written, rows being the new rows.
SetRows(d, cols, rows) ==
  [d EXCEPT !.columns = d.columns \cup cols, !.rows = rows]

Loaded(e, d, tags) == [exc |-> e, df |-> d, unique_tags |-> tags]

\* Lines 60-68: the line_count column and the derived length column.
\* An exception of categorize_length leaves the coerced line_count behind.
LineCountStep(d) ==
  IF "line_count" \notin d.columns
  THEN Returned(SetRows(d, {"line_count", "length"},
         [i \in DOMAIN d.rows |->
            [d.rows[i] EXCEPT !.line_count = NA, !.length = "Unknown"]]))
  ELSE LET d1 == SetRows(d, {},
                   [i \in DOMAIN d.rows |->
                      [d.rows[i] EXCEPT !.line_count = ToNumeric(@)]])
           bad == {i \in DOMAIN d1.rows :
                     categorize_length(d1.rows[i].line_count).exc # "none"}
       IN IF bad # {}
          THEN [exc |-> "OverflowError", val |-> d1]
          ELSE Returned(SetRows(d1, {"length"},
                 [i \in DOMAIN d1.rows |->
                    [d1.rows[i] EXCEPT
                       !.length = categorize_length(d1.rows[i].line_count).val]]))

\* The string elements of every row's tags list (line 80).
StringTags(d) ==
  UNION {{d.rows[i].tags.l[j].s :
            j \in {k \in 1..Len(d.rows[i].tags.l) : d.rows[i].tags.l[k].t = "str"}} :
         i \in 1..Len(d.rows)}

\* Lines 71-84: tags become lists; the tag index is the sorted set of string tags.
TagsStep(d) ==
  IF "tags" \notin d.columns
  THEN [df |-> SetRows(d, {"tags"},
                 [i \in DOMAIN d.rows |-> [d.rows[i] EXCEPT !.tags = List(<<>>)]]),
        unique_tags |-> <<>>]
  ELSE LET d1 == SetRows(d, {},
                   [i \in DOMAIN d.rows |->
                      [d.rows[i] EXCEPT
                         !.tags = IF @.t = "list" THEN @ ELSE List(<<>>)]])
       IN [df |-> d1, unique_tags |-> SortedSeq(StringTags(d1))]

\* Lines 87-91
LanguageStep(d) ==
  IF "language" \notin d.columns
  THEN SetRows(d, {"language"},
         [i \in DOMAIN d.rows |-> [d.rows[i] EXCEPT !.language = Str("English")]])
  ELSE SetRows(d, {},
         [i \in DOMAIN d.rows |->
            [d.rows[i] EXCEPT !.language = FillNa(@, Str("English"))]])

\* Lines 94-96
TextStep(d) ==
  IF "text" \notin d.columns
  THEN SetRows(d, {"text"},
         [i \in DOMAIN d.rows |-> [d.rows[i] EXCEPT !.text = Str("")]])
  ELSE d

\* pd.to_numeric(..., errors='coerce').fillna(0) on one engagement cell.
NumericOrZero(v) == FillNa(ToNumeric(v), IntV(0))

\* Variant: the engagement column left as parsed when it is present.
EngagementStepRaw(d) ==
  IF "engagement" \notin d.columns
  THEN Returned(SetRows(d, {"engagement"},
         [i \in DOMAIN d.rows |-> [d.rows[i] EXCEPT !.engagement = IntV(0)]]))
  ELSE Returned(d)

\* Lines 99-103: astype(int) raises on a non-finite value and truncates others.
EngagementStep(d) ==
  IF "engagement" \notin d.columns
  THEN Returned(SetRows(d, {"engagement"},
         [i \in DOMAIN d.rows |-> [d.rows[i] EXCEPT !.engagement = IntV(0)]]))
  ELSE IF \E i \in DOMAIN d.rows : NumericOrZero(d.rows[i].engagement).t = "inf"
       THEN [exc |-> "ValueError", val |-> d]
       ELSE Returned(SetRows(d, {},
              [i \in DOMAIN d.rows |->
                 [d.rows[i] EXCEPT !.engagement = IntV(Trunc(NumericOrZero(@)))]]))

\* bool(posts) for the parsed document (line 49).
Truthy(f) ==
  CASE f.kind = "array" -> Len(f.posts) > 0
    [] f.kind = "object" -> TRUE
    [] f.kind = "scalar" -> TRUE
    [] OTHER -> FALSE

\* load_posts(file_path) on an instance holding (d0, tags0): the exception that
\* escapes ("none" if it returns) and the fields it leaves behind.
load_posts(f, d0, tags0) ==
  IF f.kind = "missing" THEN Loaded("FileNotFoundError", d0, tags0)
  ELSE IF f.kind = "invalid" \/ ~Truthy(f) THEN Loaded("none", EmptyFrame, <<>>)
  ELSE IF f.kind = "scalar" THEN Loaded("NotImplementedError", d0, tags0)
  ELSE
    LET n0 == JsonNormalize(f.posts)
        lc == LineCountStep(n0)
    IN IF lc.exc # "none" THEN Loaded(lc.exc, lc.val, tags0)
       ELSE LET tg == TagsStep(lc.val)
                tx == TextStep(LanguageStep(tg.df))
                en == EngagementStep(tx)
            IN Loaded(en.exc, en.val, tg.unique_tags)

\* Variant: the exception handlers leave the fields as load_posts left them.
init_provider_unhandled(f) ==
  load_posts(f, NoneFrame, <<>>)

\* FewShotPosts.__init__: any exception of load_posts is caught and resets the
\* fields to the empty table; none escapes.
init_provider(f) ==
  LET r == load_posts(f, NoneFrame, <<>>)
  IN IF r.exc = "none" THEN r ELSE Loaded("none", EmptyFrame, <<>>)

--------------------------------------------------------------------------
(* Selection *)

\* `tag in tags` for a str tag: equality with a string element.
TagIn(tag, tags) ==
  tags.t = "list" /\ \E j \in 1..Len(tags.l) : tags.l[j].t = "str" /\ tags.l[j].s = tag

\* .astype(str) on a language cell of the model (strings only).
AsStr(v) == IF v.t = "str" THEN v.s ELSE "nan"

\* Variant: the language condition dropped from the mask.
MaskAnyLanguage(r, length, tag) ==
  /\ TagIn(tag, r.tags)
  /\ r.length = length

\* The boolean mask of lines 128-132 on one row.
Mask(r, length, tag) ==
  /\ TagIn(tag, r.tags)
  /\ Lower(AsStr(r.language)) = "english"
  /\ r.length = length

\* [['text', 'tags', 'length', 'engagement']].to_dict(orient='records') on one row.
ToDict(r) ==
  [text |-> r.text, tags |-> r.tags, length |-> r.length, engagement |-> r.engagement]

RequiredCols == {"tags", "language", "length", "text", "engagement"}

RECURSIVE KeepIdx(_, _, _, _)
\* self.df[mask]: the positions i >= from of the rows the mask keeps, increasing.
KeepIdx(rows, length, tag, from) ==
  IF from > Len(rows) THEN <<>>
  ELSE (IF Mask(rows[from], length, tag) THEN <<from>> ELSE <<>>)
       \o KeepIdx(rows, length, tag, from + 1)

get_filtered_posts(d, length, tag) ==
  IF d.isNone \/ IsEmpty(d) THEN <<>>
  ELSE IF ~(RequiredCols \subseteq d.columns) THEN <<>>
  ELSE LET keep == KeepIdx(d.rows, length, tag, 1)
       IN [i \in 1..Len(keep) |-> ToDict(d.rows[keep[i]])]

\* The sort key of line 160.
Key(x) == IntOf(x.engagement)

RECURSIVE InsertDescUnstable(_, _)
\* Variant: x placed before elements of equal key (ties reversed).
InsertDescUnstable(sorted, x) ==
  IF sorted = <<>> THEN <<x>>
  ELSE IF Key(Head(sorted)) > Key(x)
       THEN <<Head(sorted)>> \o InsertDescUnstable(Tail(sorted), x)
       ELSE <<x>> \o sorted

RECURSIVE InsertDesc(_, _)
\* x placed after every element whose key is >= its own.
InsertDesc(sorted, x) ==
  IF sorted = <<>> THEN <<x>>
  ELSE IF Key(Head(sorted)) >= Key(x)
       THEN <<Head(sorted)>> \o InsertDesc(Tail(sorted), x)
       ELSE <<x>> \o sorted

RECURSIVE SortedDesc(_)
\* sorted(posts, key=engagement, reverse=True): stable, descending.
SortedDesc(posts) ==
  IF posts = <<>> THEN <<>>
  ELSE InsertDesc(SortedDesc(SubSeq(posts, 1, Len(posts) - 1)), posts[Len(posts)])

\* Variant: one element too many.
TakeOneMore(seq, n) == SubSeq(seq, 1, Min(n + 1, Len(seq)))

\* seq[:n] for n >= 0.
Take(seq, n) == SubSeq(seq, 1, Min(n, Len(seq)))

\* sorted() compares the keys: a str key beside a numeric one raises TypeError.
SortRaises(posts) ==
  \E i, j \in 1..Len(posts) :
    posts[i].engagement.t = "str" /\ posts[j].engagement.t # "str"

get_top_engaging_posts(d, length, tag, n) ==
  IF d.isNone \/ IsEmpty(d) \/ "engagement" \notin d.columns THEN <<>>
  ELSE LET filtered_posts == get_filtered_posts(d, length, tag)
       IN IF filtered_posts = <<>> THEN <<>>
          ELSE Take(SortedDesc(filtered_posts), n)

\* What a call of get_top_engaging_posts gives its caller: line 160 is outside
\* any try block.
top_outcome(d, length, tag, n) ==
  IF d.isNone \/ IsEmpty(d) \/ "engagement" \notin d.columns THEN Returned(<<>>)
  ELSE IF SortRaises(get_filtered_posts(d, length, tag)) THEN Raised("TypeError")
  ELSE Returned(get_top_engaging_posts(d, length, tag, n))

--------------------------------------------------------------------------
(* Prompt assembly (src/output_generator.py) *)

\* The prompt is the sequence of the sections appended to it.
Section(kind, body) == [kind |-> kind, body |-> body]

get_length_str(length) ==
  CASE length = "Short" -> "1 to 4 lines"
    [] length = "Medium" -> "5 to 10 lines"
    [] length = "Long" -> "11 lines or more"
    [] OTHER -> "any length"

FormatEmojis ==
  "4) Formatting: Incorporate relevant emojis naturally within the text to enhance readability and tone. Do not use bullet points."

FormatPlainText ==
  "4) Formatting: Do not use any emojis or bullet points. Write in plain paragraphs only."

\* The instructions random.choice draws from for "Auto".
FormatAuto ==
  <<"4) Formatting: Write in plain paragraphs. You may use emojis sparingly if appropriate.",
    "4) Formatting: Incorporate relevant emojis naturally where they add value.",
    "4) Formatting: Use bullet points (using '-' or '*') for key points or lists if it improves clarity.",
    "4) Formatting: Feel free to use both emojis and bullet points where appropriate to enhance readability and engagement.",
    "4) Formatting: Write primarily in paragraphs, but you can use bullet points for lists if needed. Emojis are optional.">>

FormatDefault == "4) Formatting: Write in plain paragraphs only."

\* Lines 63-78: the formatting instruction; choice is the draw of random.choice.
FormattingInstruction(formatting_style, choice) ==
  CASE formatting_style = "Use Emojis" -> FormatEmojis
    [] formatting_style = "Plain Text" -> FormatPlainText
    [] formatting_style = "Auto" -> FormatAuto[choice]
    [] OTHER -> FormatDefault

\* reference_post_examples[:2]
PromptExampleCap == 2

\* Lines 80-86: the examples section.
ExampleSections(reference_post_examples) ==
  IF reference_post_examples # <<>>
  THEN <<Section("examples_header", Str("5) Writing Style Examples"))>>
       \o [i \in 1..Min(PromptExampleCap, Len(reference_post_examples)) |->
             Section("example", reference_post_examples[i].text)]
  ELSE <<Section("no_examples", Str("5) Writing Style Examples: No specific examples provided"))>>

get_prompt(length, tag, formatting_style, reference_post_examples, choice) ==
  <<Section("topic", Str(tag)),
    Section("length", Str(get_length_str(length))),
    Section("language", Str("English")),
    Section("formatting", Str(FormattingInstruction(formatting_style, choice)))>>
  \o ExampleSections(reference_post_examples)
  \o <<Section("marker", Str("Generated Post:"))>>

--------------------------------------------------------------------------
(* Preprocessing (src/preprocess.py) *)

\* A dict with the keys of the model; a key that is not there is Absent.
Dict(text, engagement, line_count, tags) ==
  [text |-> text, engagement |-> engagement, line_count |-> line_count, tags |-> tags]

\* post | metadata: the keys of metadata win.
Merge(post, metadata) ==
  [k \in DOMAIN post |-> IF metadata[k].t # "absent" THEN metadata[k] ELSE post[k]]

\* What the LLM call gives: the invocation fails, the content is not JSON, the
\* JSON is no object, or it is the object res.
Response(kind, res) == [kind |-> kind, res |-> res]

StripTable == [s \in {" ML ", "  "} |-> IF s = " ML " THEN "ML" ELSE ""]

\* str.strip()
Strip(s) == IF s \in DOMAIN StripTable THEN StripTable[s] ELSE s

\* isinstance(v, int): bool is a subclass of int; a float is not an int.
IsInstanceInt(v) == v.t = "bool" \/ IsInteger(v)

\* Line 140: the stripped non-empty strings of the list, the first two of them.
CleanTags(l) ==
  LET strs == SelectSeq(l, LAMBDA e : e.t = "str" /\ Strip(e.s) # "")
  IN Take([i \in 1..Len(strs) |-> Str(Strip(strs[i].s))], 2)

extract_metadata(response) ==
  LET res == response.res
  IN IF response.kind # "dict" THEN Raised("OutputParserException")
     ELSE IF res.line_count.t = "absent" \/ res.tags.t = "absent"
       THEN Raised("OutputParserException")
     ELSE IF ~IsInstanceInt(res.line_count) \/ IntOf(res.line_count) < 0
       THEN Raised("OutputParserException")
     ELSE Returned([res EXCEPT !.tags =
            IF res.tags.t = "list" THEN List(CleanTags(res.tags.l)) ELSE List(<<>>)])

\* Lines 31-47: the posts that have a text and whose metadata was extracted.
RECURSIVE Enrich(_, _, _)
Enrich(posts, responses, i) ==
  IF i > Len(posts) THEN <<>>
  ELSE LET rest == Enrich(posts, responses, i + 1)
           metadata == extract_metadata(responses[i])
       IN IF posts[i].text.t = "absent" \/ metadata.exc # "none" THEN rest
          ELSE <<Merge(posts[i], metadata.val)>> \o rest

\* The strings in the tag lists of the posts.
PostTags(posts) ==
  UNION {{e.s : e \in {x \in {posts[i].tags.l[j] : j \in 1..Len(posts[i].tags.l)} :
                         x.t = "str"}} :
         i \in {k \in 1..Len(posts) : posts[k].tags.t = "list"}}

NumeralOf == [n \in {7} |-> "7"]

\* str(value) for a value of the tag map.
PyStr(v) == IF v.t = "str" THEN v.s ELSE NumeralOf[IntOf(v)]

\* The tag map: {} when there are no tags; missing tags map to themselves and
\* values that are no strings are converted.
get_unified_tags(posts, response) ==
  LET tags == PostTags(posts)
  IN IF tags = {} THEN Returned(<<>>)
     ELSE IF response.kind # "dict" THEN Raised("OutputParserException")
     ELSE Returned([t \in DOMAIN response.res \cup tags |->
            IF t \in DOMAIN response.res THEN PyStr(response.res[t]) ELSE t])

\* Lines 69-73: the tags of a post replaced by their unified names, sorted.
ApplyMap(post, map) ==
  IF post.tags.t = "list"
  THEN LET new_tags == {IF e.s \in DOMAIN map THEN map[e.s] ELSE e.s :
                          e \in {post.tags.l[j] : j \in 1..Len(post.tags.l)}}
           sorted == SortedSeq(new_tags)
       IN [post EXCEPT !.tags = List([j \in 1..Len(sorted) |-> Str(sorted[j])])]
  ELSE post

Output(written, posts) == [written |-> written, posts |-> posts]

process_posts(raw, responses, unify) ==
  IF raw.kind # "array" THEN Output(FALSE, <<>>)
  ELSE LET enriched_posts == Enrich(raw.posts, responses, 1)
           unified == get_unified_tags(enriched_posts, unify)
       IN IF enriched_posts = <<>> THEN Output(FALSE, <<>>)
          ELSE IF unified.exc = "none" /\ DOMAIN unified.val # {}
            THEN Output(TRUE, [i \in 1..Len(enriched_posts) |->
                                 ApplyMap(enriched_posts[i], unified.val)])
          ELSE Output(TRUE, enriched_posts)

--------------------------------------------------------------------------
(* Corpus files *)

Post(text, line_count, tags, language, engagement) ==
  [text |-> text, line_count |-> line_count, tags |-> tags,
   language |-> language, engagement |-> engagement]

BasePost ==
  Post(Str("A"), IntV(3), List(<<Str("AI")>>), Str("English"), IntV(10))

\* BasePost with one field replaced by each value of the given sets.
Variants(texts, line_counts, tagss, languages, engagements) ==
  {BasePost}
  \cup {[BasePost EXCEPT !.text = v] : v \in texts}
  \cup {[BasePost EXCEPT !.line_count = v] : v \in line_counts}
  \cup {[BasePost EXCEPT !.tags = v] : v \in tagss}
  \cup {[BasePost EXCEPT !.language = v] : v \in languages}
  \cup {[BasePost EXCEPT !.engagement = v] : v \in engagements}

\* Posts of the selection specification.
SelectPosts ==
  Variants({Str("B")},
           {IntV(5), IntV(11), Absent},
           {List(<<Str("ML"), Str("ai")>>), Str("AI")},
           {Str("english"), Str("French")},
           {IntV(50), IntV(-5), Str("x")})

\* Posts of the loading specification.
LoadPosts ==
  Variants({Str("B"), Absent},
           {Absent, Null, IntV(4), IntV(5), IntV(10), IntV(11), IntV(-1), Half(15),
            Inf, Str("abc"), Str("7")},
           {Absent, Null, Str("AI"), List(<<>>), List(<<Str("ai"), Str("ML")>>),
            List(<<IntV(1), Str("AI")>>)},
           {Absent, Null, Str("english"), Str("ENGLISH"), Str("French")},
           {Absent, Null, IntV(50), IntV(-5), Str("x"), Half(7), Inf})

SeqsUpTo(S, n) == UNION {[1..k -> S] : k \in 0..n}

File(kind, posts) == [kind |-> kind, posts |-> posts]

\* What the path can hold: no file, text that is not JSON, a falsy document
\* (null, 0, "", false, {}), a truthy scalar, one non-empty object, or an array
\* of objects.
Files(pool) ==
  {File(k, <<>>) : k \in {"missing", "invalid", "falsy", "scalar"}}
  \cup {File("object", <<p>>) : p \in pool}
  \cup {File("array", ps) : ps \in SeqsUpTo(pool, MaxPosts)}

QueryLengths == {"Short", "Medium", "Long"}
QueryTags == {"AI", "ai"}

\* Direct arguments of categorize_length: counts in halves, NA, infinity, and a
\* non-numeric string.
CatInputs ==
  {NA, Inf, Str("abc")} \cup {Half(h) : h \in (-2 * MaxCount)..(2 * MaxCount)}

--------------------------------------------------------------------------
(* State machine *)

Call(op, length, tag, n, line_count) ==
  [op |-> op, length |-> length, tag |-> tag, n |-> n, line_count |-> line_count]

NoCall == Call("none", "", "", 0, NA)

\* No further argument recorded for the last call.
NoArg == <<>>

InitWith(files) ==
  /\ file \in files
  /\ pc = "new"
  /\ df = NoneFrame
  /\ unique_tags = <<>>
  /\ call = NoCall
  /\ arg = NoArg
  /\ ret = Returned(<<>>)

\* fs = FewShotPosts(file_path)
Construct ==
  /\ pc = "new"
  /\ LET r == init_provider(file)
     IN /\ df' = r.df
        /\ unique_tags' = r.unique_tags
  /\ pc' = "ready"
  /\ call' = Call("__init__", "", "", 0, NA)
  /\ ret' = IF init_provider(file).exc = "none"
            THEN Returned(<<>>)
            ELSE Raised(init_provider(file).exc)
  /\ UNCHANGED <<file, arg>>

GetTags ==
  /\ pc = "ready"
  /\ call' = Call("get_tags", "", "", 0, NA)
  /\ ret' = Returned(unique_tags)
  /\ UNCHANGED <<file, pc, df, unique_tags, arg>>

\* Variant: the filter applied to the table itself.
GetFilteredPostsInPlace(length, tag) ==
  /\ pc = "ready"
  /\ call' = Call("get_filtered_posts", length, tag, 0, NA)
  /\ ret' = Returned(get_filtered_posts(df, length, tag))
  /\ df' = [df EXCEPT !.rows = [i \in 1..Len(KeepIdx(df.rows, length, tag, 1)) |->
                                  df.rows[KeepIdx(df.rows, length, tag, 1)[i]]]]
  /\ UNCHANGED <<file, pc, unique_tags, arg>>

GetFilteredPosts(length, tag) ==
  /\ pc = "ready"
  /\ call' = Call("get_filtered_posts", length, tag, 0, NA)
  /\ ret' = Returned(get_filtered_posts(df, length, tag))
  /\ UNCHANGED <<file, pc, df, unique_tags, arg>>

GetTopEngagingPosts(length, tag, n) ==
  /\ pc = "ready"
  /\ call' = Call("get_top_engaging_posts", length, tag, n, NA)
  /\ ret' = top_outcome(df, length, tag, n)
  /\ UNCHANGED <<file, pc, df, unique_tags, arg>>

CategorizeLength(line_count) ==
  /\ pc = "ready"
  /\ call' = Call("categorize_length", "", "", 0, line_count)
  /\ ret' = categorize_length(line_count)
  /\ UNCHANGED <<file, pc, df, unique_tags, arg>>

\* self.load_posts(file_path) called again on the constructed instance: the
\* fields are left as the call left them and its exception reaches the caller.
\* arg records the fields the instance held before the call.
LoadPostsAgain(f) ==
  /\ pc = "ready"
  /\ LET r == load_posts(f, df, unique_tags)
     IN /\ df' = r.df
        /\ unique_tags' = r.unique_tags
        /\ ret' = IF r.exc = "none" THEN Returned(<<>>) ELSE Raised(r.exc)
  /\ file' = f
  /\ call' = Call("load_posts", "", "", 0, NA)
  /\ arg' = [df |-> df, unique_tags |-> unique_tags]
  /\ UNCHANGED pc

\* The arguments of get_prompt for the last call.
PromptArg(formatting_style, reference_post_examples) ==
  [formatting_style |-> formatting_style,
   reference_post_examples |-> reference_post_examples]

\* The slider of src/main.py: 0..SliderMax examples.
SliderMax == 5

\* The styles the form offers.
FormStyles == {"Auto", "Use Emojis", "Plain Text"}

\* The styles get_prompt documents, and one it does not.
PromptStyles == {"Auto", "Use Emojis", "Use Bullet Points", "Plain Text", "Bold"}

\* The "Generate Post" handler (src/main.py lines 96-100): select the examples,
\* build the prompt and send it; ret is the prompt handed to the LLM.
GeneratePost(length, topic, style, num_examples, choice) ==
  /\ pc = "ready"
  /\ top_outcome(df, length, topic, num_examples).exc = "none"
  /\ LET examples == top_outcome(df, length, topic, num_examples).val
     IN /\ arg' = PromptArg(style, examples)
        /\ ret' = Returned(get_prompt(length, topic, style, examples, choice))
  /\ call' = Call("generate_post", length, topic, num_examples, NA)
  /\ UNCHANGED <<file, pc, df, unique_tags>>

\* get_prompt called directly with a list of example posts.
GetPrompt(length, tag, style, examples, choice) ==
  /\ pc = "ready"
  /\ arg' = PromptArg(style, examples)
  /\ ret' = Returned(get_prompt(length, tag, style, examples, choice))
  /\ call' = Call("get_prompt", length, tag, 0, NA)
  /\ UNCHANGED <<file, pc, df, unique_tags>>

\* The preprocessing script: no provider is constructed.
InitPreprocess ==
  /\ file = File("missing", <<>>)
  /\ pc = "script"
  /\ df = NoneFrame
  /\ unique_tags = <<>>
  /\ call = NoCall
  /\ arg = NoArg
  /\ ret = Returned(<<>>)

\* extract_metadata(post_text) with the LLM answering response.
ExtractMetadata(response) ==
  /\ pc = "script"
  /\ arg' = response
  /\ ret' = extract_metadata(response)
  /\ call' = Call("extract_metadata", "", "", 0, NA)
  /\ UNCHANGED <<file, pc, df, unique_tags>>

\* process_posts over the raw file, the LLM answering responses[i] for post i
\* and unify for the tag map; ret is what was written to the processed file.
ProcessPosts(raw, responses, unify) ==
  /\ pc = "script"
  /\ arg' = [raw |-> raw, responses |-> responses, unify |-> unify]
  /\ ret' = Returned(process_posts(raw, responses, unify))
  /\ call' = Call("process_posts", "", "", 0, NA)
  /\ UNCHANGED <<file, pc, df, unique_tags>>

\* Selection over loaded corpora.
Init == InitWith(Files(SelectPosts))

Next ==
  \/ Construct
  \/ GetTags
  \/ \E length \in QueryLengths, tag \in QueryTags : GetFilteredPosts(length, tag)
  \/ \E length \in QueryLengths, tag \in QueryTags, n \in 0..MaxN :
       GetTopEngagingPosts(length, tag, n)

Spec == Init /\ [][Next]_vars

\* Loading of every kind of corpus file.
InitLoad == InitWith(Files(LoadPosts))

NextLoad ==
  \/ Construct
  \/ GetTags

SpecLoad == InitLoad /\ [][NextLoad]_vars

\* Posts of the reloading specification.
ReloadPosts ==
  Variants({}, {Inf}, {List(<<Str("ML"), Str("ai")>>)}, {}, {Inf})

\* Repeated loads on one instance.
InitReload == InitWith(Files(ReloadPosts))

NextReload ==
  \/ Construct
  \/ GetTags
  \/ \E f \in Files(ReloadPosts) : LoadPostsAgain(f)

SpecReload == InitReload /\ [][NextReload]_vars

\* Posts and example lists of the prompt specification.
PromptPosts == Variants({}, {}, {}, {}, {IntV(50)})

PromptFiles == {File("array", ps) : ps \in SeqsUpTo(PromptPosts, MaxPromptPosts)}

ExampleLists == {[i \in 1..k |-> ToDict(JsonNormalize(<<BasePost>>).rows[1])] : k \in 0..MaxPromptPosts}

Choices(style) == IF style = "Auto" THEN DOMAIN FormatAuto ELSE {1}

\* From the form to the prompt.
InitPrompt == InitWith(PromptFiles)

NextPrompt ==
  \/ Construct
  \/ \E length \in QueryLengths, style \in FormStyles, n \in 0..SliderMax :
       \E choice \in Choices(style) : GeneratePost(length, "AI", style, n, choice)
  \/ \E style \in PromptStyles, examples \in ExampleLists :
       \E choice \in Choices(style) : GetPrompt("Short", "AI", style, examples, choice)

SpecPrompt == InitPrompt /\ [][NextPrompt]_vars

\* The answers of the LLM to the metadata prompt.
MetaBase == Dict(Absent, Absent, IntV(3), List(<<Str("AI")>>))

MetaVariants(texts, engagements, line_counts, tagss) ==
  {MetaBase}
  \cup {[MetaBase EXCEPT !.text = v] : v \in texts}
  \cup {[MetaBase EXCEPT !.engagement = v] : v \in engagements}
  \cup {[MetaBase EXCEPT !.line_count = v] : v \in line_counts}
  \cup {[MetaBase EXCEPT !.tags = v] : v \in tagss}

Failures == {Response(k, MetaBase) : k \in {"invoke_error", "unparsable", "not_dict"}}

MetaResponses ==
  Failures \cup
  {Response("dict", d) : d \in MetaVariants(
     {Str("Z")}, {IntV(0)},
     {Absent, Null, IntV(0), IntV(-1), Half(7), Inf, Str("7"), Bool(TRUE), Bool(FALSE)},
     {Absent, Null, Str("AI"), List(<<>>), List(<<Str(" ML "), Str("AI")>>),
      List(<<Str("  "), IntV(1), Str("AI")>>),
      List(<<Str("AI"), Str("ML"), Str("ai")>>)})}

ProcessResponses ==
  {Response("unparsable", MetaBase)} \cup
  {Response("dict", d) : d \in MetaVariants(
     {Str("Z")}, {}, {}, {List(<<Str("ai"), Str("ML")>>)})}

\* The answers of the LLM to the tag unification prompt.
UnifyResponses ==
  {Response("unparsable", <<>>), Response("not_dict", <<>>), Response("dict", <<>>),
   Response("dict", [t \in {"AI", "ai"} |-> IF t = "AI" THEN Str("ML") ELSE IntV(7)])}

RawPosts ==
  {Dict(Str("A"), IntV(10), Absent, Absent),
   Dict(Str("B"), IntV(50), IntV(9), List(<<Str("ML")>>)),
   Dict(Absent, IntV(10), Absent, Absent)}

RawFiles ==
  {File("missing", <<>>), File("invalid", <<>>)}
  \cup {File("array", ps) : ps \in SeqsUpTo(RawPosts, MaxRawPosts)}

NextPreprocess ==
  \/ \E response \in MetaResponses : ExtractMetadata(response)
  \/ \E raw \in RawFiles, unify \in UnifyResponses :
       \E responses \in [1..Len(raw.posts) -> ProcessResponses] :
         ProcessPosts(raw, responses, unify)

SpecPreprocess == InitPreprocess /\ [][NextPreprocess]_vars

\* The length classifier applied to each argument.
InitCategorize == InitWith({File("missing", <<>>)})

NextCategorize ==
  \/ Construct
  \/ \E line_count \in CatInputs : CategorizeLength(line_count)

SpecCategorize == InitCategorize /\ [][NextCategorize]_vars

--------------------------------------------------------------------------
(* Properties of the selector *)

EnglishSpellings == {"English", "english", "ENGLISH"}

\* The three conditions of the selector on a row of the table.
Matches(r, length, tag) ==
  /\ r.tags.t = "list" /\ Str(tag) \in {r.tags.l[j] : j \in 1..Len(r.tags.l)}
  /\ r.language.t = "str" /\ r.language.s \in EnglishSpellings
  /\ r.length = length

\* The rows of the table the last query asked for.
Wanted == {i \in 1..Len(df.rows) : Matches(df.rows[i], call.length, call.tag)}

Increasing(f) == \A i, j \in DOMAIN f : i < j => f[i] < f[j]
Injective(f) == \A i, j \in DOMAIN f : i # j => f[i] # f[j]

\* out lists rows of the table, each taken from a distinct matching position.
DrawnFrom(out, f) == \A i \in DOMAIN out : out[i] = ToDict(df.rows[f[i]])

\* C1: get_filtered_posts returns exactly the rows whose tags contain the tag
\* (case-sensitive), whose language lower-cases to "english" and whose length is
\* the requested one, in table order; get_top_engaging_posts with n at least the
\* number of matches returns the same rows.
C1_ExactFilter ==
  /\ call.op = "get_filtered_posts" =>
       /\ ret.exc = "none"
       /\ Len(ret.val) = Cardinality(Wanted)
       /\ \E f \in [1..Len(ret.val) -> Wanted] : Increasing(f) /\ DrawnFrom(ret.val, f)
  /\ (call.op = "get_top_engaging_posts" /\ call.n >= Cardinality(Wanted)) =>
       /\ ret.exc = "none"
       /\ Len(ret.val) = Cardinality(Wanted)
       /\ \E f \in [1..Len(ret.val) -> Wanted] : Injective(f) /\ DrawnFrom(ret.val, f)

\* A query that keeps one row of a two-row table and drops the other.
C1_Witness ==
  /\ call.op = "get_filtered_posts"
  /\ Len(df.rows) = 2
  /\ Len(ret.val) = 1
  /\ df.rows[1].language.s = "French"

\* C2: the result of get_top_engaging_posts is ordered by engagement,
\* non-increasing, and rows of equal engagement keep their table order.
C2_StableDescending ==
  call.op = "get_top_engaging_posts" =>
    /\ \A i, j \in 1..Len(ret.val) :
         i < j => IntOf(ret.val[i].engagement) >= IntOf(ret.val[j].engagement)
    /\ \E f \in [1..Len(ret.val) -> Wanted] :
         /\ Injective(f)
         /\ DrawnFrom(ret.val, f)
         /\ \A i, j \in 1..Len(ret.val) :
              (i < j /\ ret.val[i].engagement = ret.val[j].engagement) => f[i] < f[j]

\* Two different rows of equal engagement are returned.
C2_Witness ==
  /\ call.op = "get_top_engaging_posts"
  /\ Len(ret.val) = 2
  /\ ret.val[1].engagement = ret.val[2].engagement
  /\ ret.val[1].text # ret.val[2].text

\* C3: get_top_engaging_posts(length, tag, n) returns the first min(n, m) rows of
\* the ranked match list, m the number of matches: empty for n = 0, at most n
\* rows, all m matches when n > m.
C3_Truncation ==
  call.op = "get_top_engaging_posts" =>
    LET m == Cardinality(Wanted)
        ranked == SortedDesc(get_filtered_posts(df, call.length, call.tag))
    IN /\ ret.exc = "none"
       /\ Len(ret.val) = Min(call.n, m)
       /\ Len(ranked) = m
       /\ \A i \in 1..Len(ret.val) : ret.val[i] = ranked[i]
       /\ call.n = 0 => ret.val = <<>>
       /\ call.n > m => Len(ret.val) = m

\* Two rows match and n = 1 cuts the ranked list to its first row.
C3_Witness ==
  /\ call.op = "get_top_engaging_posts"
  /\ call.n = 1
  /\ Cardinality(Wanted) = 2
  /\ Len(ret.val) = 1
  /\ IntOf(ret.val[1].engagement) = 50

--------------------------------------------------------------------------
(* Properties of the length classifier *)

ValidCount(v) == IsInteger(v) /\ IntOf(v) >= 0

\* C4: for a non-negative integer line count c, categorize_length(c) is Short
\* exactly when c < 5, Medium exactly when 5 <= c <= 10, Long exactly when c > 10.
C4_Thresholds ==
  (call.op = "categorize_length" /\ ValidCount(call.line_count)) =>
    LET c == IntOf(call.line_count)
    IN /\ ret.exc = "none"
       /\ ret.val \in {"Short", "Medium", "Long"}
       /\ ret.val = "Short" <=> c < 5
       /\ ret.val = "Medium" <=> (5 <= c /\ c <= 10)
       /\ ret.val = "Long" <=> c > 10

\* The upper boundary 10 has been classified.
C4_Witness ==
  /\ call.op = "categorize_length"
  /\ call.line_count = IntV(10)
  /\ ret = Returned("Medium")

\* C5: categorize_length(c) is Unknown if and only if c is not a valid
\* non-negative integer (missing, non-numeric, negative or fractional).
C5_UnknownIffInvalid ==
  call.op = "categorize_length" =>
    (ret = Returned("Unknown") <=> ~ValidCount(call.line_count))

\* C6: categorize_length returns one of the four categories for every value
\* that reaches it and never raises.
C6_Total ==
  call.op = "categorize_length" =>
    /\ ret.exc = "none"
    /\ ret.val \in {"Short", "Medium", "Long", "Unknown"}

--------------------------------------------------------------------------
(* Properties of the loader *)

Queries == {"get_tags", "get_filtered_posts", "get_top_engaging_posts"}

\* C7: constructing the provider on a path with no file yields a table with no
\* rows and the full column schema, an empty tag index, and every query on it
\* returns the empty list without raising.
C7_MissingFile ==
  (file.kind = "missing" /\ pc = "ready") =>
    /\ ~df.isNone
    /\ Len(df.rows) = 0
    /\ df.columns = Columns
    /\ unique_tags = <<>>
    /\ ret.exc = "none"
    /\ call.op \in Queries => ret.val = <<>>

\* A top-N query has been answered on the provider of a missing file.
C7_Witness ==
  /\ file.kind = "missing"
  /\ pc = "ready"
  /\ call.op = "get_top_engaging_posts"
  /\ call.n > 0

\* The document is not a non-empty array of post objects.
Malformed(f) ==
  \/ f.kind \in {"invalid", "falsy", "scalar", "object"}
  \/ f.kind = "array" /\ f.posts = <<>>

\* C8: a file holding invalid JSON, an empty array, or JSON of the wrong
\* top-level shape (a single object, a scalar) loads as the empty table with the
\* full schema and an empty tag index, like a missing file.
C8_MalformedIsEmpty ==
  (pc = "ready" /\ Malformed(file)) =>
    /\ df = EmptyFrame
    /\ unique_tags = <<>>

\* The load of an array of posts went through: one row per post.
LoadedArray ==
  /\ pc = "ready"
  /\ file.kind = "array"
  /\ Len(df.rows) > 0
  /\ Len(df.rows) = Len(file.posts)

\* C9: after a successful load every row has text, line_count, tags, language
\* and engagement populated, and a field absent from a post holds its default:
\* line_count unknown, tags [], language "English", text "", engagement 0.
C9_FieldsPopulated ==
  LoadedArray =>
    \A i \in 1..Len(df.rows) :
      LET r == df.rows[i]
          p == file.posts[i]
      IN /\ Columns \subseteq df.columns
         /\ r.text.t # "na"
         /\ r.tags.t = "list"
         /\ r.language.t # "na"
         /\ r.engagement.t = "num"
         /\ p.line_count.t = "absent" => r.line_count = NA
         /\ p.tags.t = "absent" => r.tags = List(<<>>)
         /\ p.language.t = "absent" => r.language = Str("English")
         /\ p.text.t = "absent" => r.text = Str("")
         /\ p.engagement.t = "absent" => r.engagement = IntV(0)

\* C10: after a successful load the engagement of every row is a non-negative
\* integer; absent, null and non-numeric source values are 0.
C10_EngagementNonNegative ==
  LoadedArray =>
    \A i \in 1..Len(df.rows) :
      LET r == df.rows[i]
          p == file.posts[i]
      IN /\ IsInteger(r.engagement)
         /\ IntOf(r.engagement) >= 0
         /\ p.engagement.t \in {"absent", "null", "str"} => r.engagement = IntV(0)

\* C11: after a successful load the tags of every row are a list of strings: a
\* scalar or null source value becomes the empty list (and the row matches no
\* tag-filtered selection), and non-string elements of a source list are removed.
C11_TagsAreStringLists ==
  LoadedArray =>
    \A i \in 1..Len(df.rows) :
      LET r == df.rows[i]
          p == file.posts[i]
      IN /\ r.tags.t = "list"
         /\ \A j \in 1..Len(r.tags.l) : r.tags.l[j].t = "str"
         /\ p.tags.t \in {"null", "str", "num"} =>
              /\ r.tags = List(<<>>)
              /\ \A length \in QueryLengths, tag \in QueryTags : ~Mask(r, length, tag)
         /\ p.tags.t = "list" =>
              r.tags.l = SelectSeq(p.tags.l, LAMBDA e : e.t = "str")

\* The strings that occur in the tags list of some row of the table.
TagsInTable ==
  {s \in DOMAIN StrRank :
     \E i \in 1..Len(df.rows) :
       /\ df.rows[i].tags.t = "list"
       /\ \E j \in 1..Len(df.rows[i].tags.l) : df.rows[i].tags.l[j] = Str(s)}

\* C12: after any load get_tags() is strictly increasing and its elements are
\* exactly the strings occurring in the tags list of some row of the table.
C12_TagIndex ==
  pc = "ready" =>
    /\ \A i, j \in 1..Len(unique_tags) : i < j => StrLess(unique_tags[i], unique_tags[j])
    /\ {unique_tags[i] : i \in 1..Len(unique_tags)} = TagsInTable
    /\ call.op = "get_tags" => ret = Returned(unique_tags)

\* get_tags has returned an index of three tags drawn from two rows.
C12_Witness ==
  /\ call.op = "get_tags"
  /\ Len(df.rows) = 2
  /\ ret.val = <<"AI", "ML", "ai">>

\* C20: a non-empty array of post objects loads as one row per element, in array
\* order, whatever the field values of its records.
C20_OneRowPerPost ==
  (pc = "ready" /\ file.kind = "array" /\ Len(file.posts) > 0) =>
    /\ Len(df.rows) = Len(file.posts)
    /\ \A i \in 1..Len(file.posts) :
         file.posts[i].text.t = "str" => df.rows[i].text = file.posts[i].text

--------------------------------------------------------------------------
(* Error handling and frame of the provider *)

\* C13: no exception of the constructor or of a query reaches the caller, for
\* any corpus file and any (length, tag, n): a failed load leaves the empty table
\* and the empty tag index, and a query on an empty table returns the empty list.
C13_NoExceptionEscapes ==
  pc = "ready" =>
    /\ ret.exc = "none"
    /\ ~df.isNone
    /\ load_posts(file, NoneFrame, <<>>).exc # "none" =>
         df = EmptyFrame /\ unique_tags = <<>>
    /\ (call.op \in Queries /\ (IsEmpty(df) \/ ~(RequiredCols \subseteq df.columns))) =>
         ret.val = <<>>

\* A top-N query was answered after a load that failed inside json_normalize.
C13_Witness ==
  /\ file.kind = "scalar"
  /\ load_posts(file, NoneFrame, <<>>).exc = "NotImplementedError"
  /\ call.op = "get_top_engaging_posts"
  /\ call.n > 0

\* The provider as the constructor built it from the file.
Built == init_provider(file)

\* C14: once constructed the corpus is read-only: after any sequence of queries
\* the table and the tag index are those the constructor built, and each query
\* returns what it returns on that table.
C14_ReadOnly ==
  pc = "ready" =>
    /\ df = Built.df
    /\ unique_tags = Built.unique_tags
    /\ call.op = "get_tags" => ret.val = Built.unique_tags
    /\ call.op = "get_filtered_posts" =>
         ret.val = get_filtered_posts(Built.df, call.length, call.tag)
    /\ call.op = "get_top_engaging_posts" =>
         ret.val = get_top_engaging_posts(Built.df, call.length, call.tag, call.n)

\* A query that returned one of two rows has been answered on a loaded table.
C14_Witness ==
  /\ call.op = "get_top_engaging_posts"
  /\ Len(df.rows) = 2
  /\ Len(ret.val) = 1
  /\ df = Built.df

\* C15: a load attempt on a provider is atomic: when it fails, the provider
\* still holds the previous table with its tag index; when it succeeds, it holds
\* the complete new table (all columns) with the tag index of that table.
C15_AtomicReload ==
  call.op = "load_posts" =>
    /\ ret.exc # "none" => (df = arg.df /\ unique_tags = arg.unique_tags)
    /\ ret.exc = "none" =>
         /\ Columns \subseteq df.columns
         /\ {unique_tags[i] : i \in 1..Len(unique_tags)} = TagsInTable

--------------------------------------------------------------------------
(* Properties of the prompt *)

\* The bodies of the sections of one kind in the prompt of the last call.
Bodies(kind) ==
  LET secs == SelectSeq(ret.val, LAMBDA x : x.kind = kind)
  IN [i \in 1..Len(secs) |-> secs[i].body.s]

\* C16: with N examples chosen on the form, the prompt embeds every exemplar
\* the selector returned: min(N, number of matching posts) example texts.
C16_AllExamplesUsed ==
  call.op = "generate_post" =>
    Len(Bodies("example")) = Min(call.n, Cardinality(Wanted))

\* Instructions that ask for bullet points, and those that rule them out.
AsksForBullets == {FormatAuto[3], FormatAuto[4]}
AsksForEmojis == {FormatEmojis, FormatAuto[2], FormatAuto[4]}
ParagraphsOnly == {FormatPlainText, FormatDefault}

\* C17: get_prompt appends exactly one formatting instruction, and for each
\* documented style the instruction is the one of that style; "Use Bullet Points"
\* asks for bullet points and does not restrict the post to plain paragraphs.
C17_FormattingMatchesStyle ==
  call.op \in {"get_prompt", "generate_post"} =>
    LET style == arg.formatting_style
        instr == Bodies("formatting")
    IN /\ Len(instr) = 1
       /\ style = "Auto" => instr[1] \in {FormatAuto[i] : i \in DOMAIN FormatAuto}
       /\ style = "Use Emojis" => instr[1] \in AsksForEmojis
       /\ style = "Plain Text" => instr[1] = FormatPlainText
       /\ style = "Use Bullet Points" =>
            instr[1] \in AsksForBullets /\ instr[1] \notin ParagraphsOnly

--------------------------------------------------------------------------
(* Properties of the preprocessing *)

\* A stripped, non-empty string.
CleanTag(e) == e.t = "str" /\ e.s # "" /\ Strip(e.s) = e.s

\* The answer is an object with both keys and a non-negative integer line_count.
ValidMetadata(response) ==
  /\ response.kind = "dict"
  /\ response.res.tags.t # "absent"
  /\ ValidCount(response.res.line_count)

\* C18: when extract_metadata returns, line_count is a non-negative integer and
\* tags is a list of at most two stripped non-empty strings; every other LLM
\* outcome (invocation failure, unparsable response, missing key, invalid
\* line_count) raises OutputParserException and nothing else.
C18_MetadataValidated ==
  call.op = "extract_metadata" =>
    /\ ret.exc \in {"none", "OutputParserException"}
    /\ ret.exc = "none" <=> ValidMetadata(arg)
    /\ ret.exc = "none" =>
         /\ ValidCount(ret.val.line_count)
         /\ ret.val.tags.t = "list"
         /\ Len(ret.val.tags.l) <= 2
         /\ \A j \in 1..Len(ret.val.tags.l) : CleanTag(ret.val.tags.l[j])

\* The raw posts that reach the processed file: those with a text whose
\* metadata was extracted; NthKept(j) is the j-th of them.
KeptRaw ==
  {i \in 1..Len(arg.raw.posts) :
     /\ arg.raw.posts[i].text.t # "absent"
     /\ extract_metadata(arg.responses[i]).exc = "none"}

NthKept(j) == CHOOSE i \in KeptRaw : Cardinality({k \in KeptRaw : k < i}) = j - 1

\* C19: every post written to the processed file equals its raw input post in
\* every field other than line_count and tags, whatever the LLM returns.
C19_OnlyMetadataChanges ==
  (call.op = "process_posts" /\ ret.val.written) =>
    /\ Len(ret.val.posts) = Cardinality(KeptRaw)
    /\ \A j \in 1..Len(ret.val.posts) :
         /\ ret.val.posts[j].text = arg.raw.posts[NthKept(j)].text
         /\ ret.val.posts[j].engagement = arg.raw.posts[NthKept(j)].engagement

====
